---- MODULE Spec2Model ----
(***************************************************************************)
(* Vendor risk assessment toolkit: Phase 1 (phase1_assessor.py) scores a   *)
(* list of answered questions, classifies the total and saves the raw      *)
(* answers as CSV; Phase 2 (phase2_mapper.py) loads that CSV, re-derives   *)
(* the points of each answer and groups the risky ones by framework        *)
(* control.                                                                *)
(*                                                                         *)
(* Text that the code converts (int(), str(), lower(), strip(), split())   *)
(* is a sequence of one-character strings, so that the conversions are     *)
(* computed and not assumed.  Identifiers that are only compared for       *)
(* equality (QuestionID, QuestionText, RiskArea) are plain strings.        *)
(***************************************************************************)
EXTENDS Integers, Sequences, FiniteSets, TLC

\* ------------------------------------------------------------------ bounds
\* longest answer list handed to the two phases
MaxRecords == 2
\* largest RiskWeight of the single-record inputs
MaxWeight == 4

\* ------------------------------------------------------- text conversions
DigitChars == <<"0", "1", "2", "3", "4", "5", "6", "7", "8", "9">>

IsDigit(c) == \E d \in 1..10 : DigitChars[d] = c

DigitVal(c) == (CHOOSE d \in 1..10 : DigitChars[d] = c) - 1

IsSpace(c) == c \in {" ", "\t"}

\* str.strip(): leading and trailing whitespace removed
RECURSIVE LStrip(_)
LStrip(s) ==
    IF s # <<>> /\ IsSpace(Head(s)) THEN LStrip(Tail(s)) ELSE s

RECURSIVE RStrip(_)
RStrip(s) ==
    IF s # <<>> /\ IsSpace(s[Len(s)]) THEN RStrip(SubSeq(s, 1, Len(s) - 1)) ELSE s

Strip(s) == RStrip(LStrip(s))

\* str.lower() on the letters the answer types are written with
LowerChar(c) ==
    CASE c = "Y" -> "y" [] c = "E" -> "e" [] c = "S" -> "s" [] c = "N" -> "n"
      [] c = "O" -> "o" [] c = "C" -> "c" [] c = "R" -> "r" [] c = "T" -> "t"
      [] c = "X" -> "x" [] OTHER -> c

Lower(s) == [k \in 1..Len(s) |-> LowerChar(s[k])]

\* the digit part int() accepts: digits, single underscores between digits
DigitsOk(s) ==
    /\ s # <<>>
    /\ \A k \in 1..Len(s) : IsDigit(s[k]) \/ s[k] = "_"
    /\ IsDigit(s[1]) /\ IsDigit(s[Len(s)])
    /\ \A k \in 1..(Len(s) - 1) : ~(s[k] = "_" /\ s[k + 1] = "_")

RECURSIVE DigitsValue(_, _)
DigitsValue(s, acc) ==
    IF s = <<>> THEN acc
    ELSE IF Head(s) = "_" THEN DigitsValue(Tail(s), acc)
    ELSE DigitsValue(Tail(s), 10 * acc + DigitVal(Head(s)))

\* int(text): ok = FALSE stands for ValueError
ParseInt(s) ==
    LET body == Strip(s)
        signed == body # <<>> /\ Head(body) \in {"+", "-"}
        digits == IF signed THEN Tail(body) ELSE body
    IN  IF DigitsOk(digits)
        THEN [ok |-> TRUE,
              val |-> IF signed /\ Head(body) = "-"
                      THEN 0 - DigitsValue(digits, 0)
                      ELSE DigitsValue(digits, 0)]
        ELSE [ok |-> FALSE, val |-> 0]

RECURSIVE NatToStr(_)
NatToStr(n) ==
    IF n < 10 THEN <<DigitChars[n + 1]>>
    ELSE NatToStr(n \div 10) \o <<DigitChars[(n % 10) + 1]>>

\* str(int), as csv.DictWriter writes a number
IntToStr(n) == IF n < 0 THEN <<"-">> \o NatToStr(0 - n) ELSE NatToStr(n)

\* str.split(';'): every segment, empty ones included
RECURSIVE SplitSemi(_)
SplitSemi(s) ==
    IF \A k \in 1..Len(s) : s[k] # ";" THEN <<s>>
    ELSE LET p == CHOOSE k \in 1..Len(s) :
                      s[k] = ";" /\ \A m \in 1..(k - 1) : s[m] # ";"
         IN  <<SubSeq(s, 1, p - 1)>> \o SplitSemi(SubSeq(s, p + 1, Len(s)))

RECURSIVE StripNonEmpty(_)
StripNonEmpty(segs) ==
    IF segs = <<>> THEN <<>>
    ELSE IF Strip(Head(segs)) # <<>>
         THEN <<Strip(Head(segs))>> \o StripNonEmpty(Tail(segs))
         ELSE StripNonEmpty(Tail(segs))

\* --------------------------------------------------------------- scoring
\* the mapper's variant of the unparseable-score branch, a faulty variant
Phase1Points_SkipUnparseable(answer_type, risk_weight, answer) ==
    IF answer_type = <<"y", "e", "s", "_", "n", "o">>
    THEN IF answer = <<"n", "o">> THEN risk_weight ELSE 0
    ELSE IF answer_type = <<"s", "c", "o", "r", "e", "_", "1", "_", "5">>
         THEN IF ParseInt(answer).ok
              THEN (5 - ParseInt(answer).val) * risk_weight
              ELSE 0
         ELSE 0

\* calculate_risk_score, the points of one result; answer_type is lowered
Phase1Points(answer_type, risk_weight, answer) ==
    IF answer_type = <<"y", "e", "s", "_", "n", "o">>
    THEN IF answer = <<"n", "o">> THEN risk_weight ELSE 0
    ELSE IF answer_type = <<"s", "c", "o", "r", "e", "_", "1", "_", "5">>
         THEN IF ParseInt(answer).ok
              THEN (5 - ParseInt(answer).val) * risk_weight
              ELSE risk_weight
         ELSE 0

\* a total that keeps only the last contribution, a faulty variant
Accumulate_Overwrite(total_risk_points, pts) == pts

\* total_risk_points += points
Accumulate(total_risk_points, pts) == total_risk_points + pts

\* thresholds compared with >=, a faulty variant
RiskLevel_Inclusive(total_score) ==
    IF total_score >= 50 THEN "High"
    ELSE IF total_score >= 20 THEN "Medium"
    ELSE "Low"

\* generate_assessment_report, the risk level written to the report
RiskLevel(total_score) ==
    IF total_score > 50 THEN "High"
    ELSE IF total_score > 20 THEN "Medium"
    ELSE "Low"

\* save_assessment_data: one CSV row, every cell text
CsvRow(result) ==
    [QuestionID |-> result.QuestionID,
     QuestionText |-> result.QuestionText,
     AnswerType |-> result.AnswerType,
     RiskWeight |-> IntToStr(result.RiskWeight),
     RiskArea |-> result.RiskArea,
     AnswerGiven |-> result.AnswerGiven]

\* analyze_framework_impact: int(RiskWeight), 0 on ValueError
Phase2Weight(cell) == IF ParseInt(cell).ok THEN ParseInt(cell).val ELSE 0

\* analyze_framework_impact, the points re-derived for one result
Phase2Points(answer_type, risk_weight, answer) ==
    IF answer_type = <<"y", "e", "s", "_", "n", "o">>
    THEN IF answer = <<"n", "o">> THEN risk_weight ELSE 0
    ELSE IF answer_type = <<"s", "c", "o", "r", "e", "_", "1", "_", "5">>
         THEN IF ParseInt(answer).ok
              THEN (5 - ParseInt(answer).val) * risk_weight
              ELSE 0
         ELSE 0

\* points_earned of one loaded CSV row
RowPoints(row) ==
    Phase2Points(Lower(row.AnswerType), Phase2Weight(row.RiskWeight), row.AnswerGiven)

\* a zero-point answer counted as risky, a faulty variant
IsRisky_Inclusive(points_earned) == points_earned >= 0

\* is_risky_answer
IsRisky(points_earned) == points_earned > 0

\* question_lookup: QuestionID -> template row, the last row of an id wins
QuestionLookup(template) ==
    [id \in {template[k].QuestionID : k \in 1..Len(template)} |->
        template[CHOOSE k \in 1..Len(template) :
                     /\ template[k].QuestionID = id
                     /\ \A m \in (k + 1)..Len(template) : template[m].QuestionID # id]]

\* template_info.get('RelevantFrameworkControl', '').strip()
ControlsStr(template_info) ==
    IF "RelevantFrameworkControl" \in DOMAIN template_info
    THEN Strip(template_info.RelevantFrameworkControl)
    ELSE <<>>

\* a list with later repeats removed, first occurrences kept in order
RECURSIVE Dedupe(_)
Dedupe(cs) ==
    IF cs = <<>> THEN <<>>
    ELSE LET front == Dedupe(SubSeq(cs, 1, Len(cs) - 1))
             last == cs[Len(cs)]
         IN  IF \E k \in 1..Len(front) : front[k] = last
             THEN front ELSE Append(front, last)

\* relevant_controls: the stripped non-empty segments, in declaration order
RelevantControls(relevant_controls_str) ==
    IF relevant_controls_str = <<>> THEN <<>>
    ELSE StripNonEmpty(SplitSemi(relevant_controls_str))

\* finding_details
FindingDetails(q_id, template_info, answer, points_earned) ==
    [QuestionID |-> q_id,
     QuestionText |-> template_info.QuestionText,
     AnswerGiven |-> answer,
     RiskPoints |-> points_earned,
     RiskArea |-> template_info.RiskArea]

\* framework_findings is a dict: its entries in insertion order
HasControl(findings, control) ==
    \E k \in 1..Len(findings) : findings[k].control = control

\* a finding already filed under the control not filed again, a faulty variant
AddFinding_NoDuplicate(findings, control, details) ==
    IF HasControl(findings, control)
    THEN [k \in 1..Len(findings) |->
             IF /\ findings[k].control = control
                /\ \A m \in 1..Len(findings[k].findings) :
                       findings[k].findings[m] # details
             THEN [findings[k] EXCEPT !.findings = Append(@, details)]
             ELSE findings[k]]
    ELSE Append(findings, [control |-> control, findings |-> <<details>>])

\* a new control put first and a finding put first, a faulty variant
AddFinding_Front(findings, control, details) ==
    IF HasControl(findings, control)
    THEN [k \in 1..Len(findings) |->
             IF findings[k].control = control
             THEN [findings[k] EXCEPT !.findings = <<details>> \o @]
             ELSE findings[k]]
    ELSE <<[control |-> control, findings |-> <<details>>]>> \o findings

\* one pass of the loop over relevant_controls
AddFinding(findings, control, details) ==
    IF HasControl(findings, control)
    THEN [k \in 1..Len(findings) |->
             IF findings[k].control = control
             THEN [findings[k] EXCEPT !.findings = Append(@, details)]
             ELSE findings[k]]
    ELSE Append(findings, [control |-> control, findings |-> <<details>>])

RECURSIVE AddFindings(_, _, _)
AddFindings(findings, controls, details) ==
    IF controls = <<>> THEN findings
    ELSE AddFindings(AddFinding(findings, Head(controls), details),
                     Tail(controls), details)

\* the body of "if is_risky_answer and q_id in question_lookup"
MapAnswer(findings, template_info, row, points_earned) ==
    AddFindings(findings,
                RelevantControls(ControlsStr(template_info)),
                FindingDetails(row.QuestionID, template_info,
                               row.AnswerGiven, points_earned))

\* an answer without a catalog entry filed under a catch-all control,
\* a faulty variant
AnalyzeResult_CatchAll(findings, lookup, row) ==
    IF IsRisky(RowPoints(row))
    THEN MapAnswer(findings,
                   IF row.QuestionID \in DOMAIN lookup
                   THEN lookup[row.QuestionID]
                   ELSE [QuestionID |-> row.QuestionID,
                         QuestionText |-> row.QuestionText,
                         RiskArea |-> row.RiskArea,
                         RelevantFrameworkControl |-> <<"U">>],
                   row, RowPoints(row))
    ELSE findings

\* one iteration of the loop over assessment_results
AnalyzeResult(findings, lookup, row) ==
    IF IsRisky(RowPoints(row)) /\ row.QuestionID \in DOMAIN lookup
    THEN MapAnswer(findings, lookup[row.QuestionID], row, RowPoints(row))
    ELSE findings

\* ---------------------------------------------------------------- inputs
YES_NO == <<"y", "e", "s", "_", "n", "o">>
SCORE_1_5 == <<"s", "c", "o", "r", "e", "_", "1", "_", "5">>
TEXT == <<"t", "e", "x", "t">>

\* questions of the questionnaire: id, answer type, weight
Questions ==
    { [id |-> "Q1", type |-> YES_NO, weight |-> 10],
      [id |-> "Q2", type |-> SCORE_1_5, weight |-> 7],
      [id |-> "Q3", type |-> SCORE_1_5, weight |-> 10],
      [id |-> "Q4", type |-> <<"S", "c", "o", "r", "e", "_", "1", "_", "5">>, weight |-> 5],
      [id |-> "Q9", type |-> YES_NO, weight |-> 5] }

Answers ==
    { <<"n", "o">>, <<"y", "e", "s">>, <<"1">>, <<"2">>, <<"x">> }

AnswerTypes ==
    { YES_NO, SCORE_1_5, TEXT, <<"Y", "E", "S", "_", "N", "O">>, <<"x">> }

WideAnswers ==
    { <<"n", "o">>, <<"y", "e", "s">>, <<"N", "o">>, <<"1">>, <<"3">>, <<"5">>,
      <<"0">>, <<"6">>, <<"-", "1">>, <<" ", "+", "2", " ">>, <<"1", "_", "0">>,
      <<"3", ".", "5">>, <<"a", "b", "c">>, <<>> }

\* conduct_assessment: one entry of assessment_results
Result(id, type, weight, answer) ==
    [QuestionID |-> id, QuestionText |-> "text", AnswerType |-> type,
     RiskWeight |-> weight, RiskArea |-> "area", AnswerGiven |-> answer]

Records == { Result(q.id, q.type, q.weight, a) : q \in Questions, a \in Answers }

WideRecords ==
    { Result("Q1", t, w, a) : t \in AnswerTypes, w \in (-1)..MaxWeight, a \in WideAnswers }

RECURSIVE SeqsOfLen(_, _)
SeqsOfLen(S, n) ==
    IF n = 0 THEN {<<>>}
    ELSE {Append(q, x) : q \in SeqsOfLen(S, n - 1), x \in S}

AnswerLists ==
    UNION {SeqsOfLen(Records, n) : n \in 0..MaxRecords} \cup {<<r>> : r \in WideRecords}

TemplateRow(id, controls) ==
    [QuestionID |-> id, QuestionText |-> "text of " \o id,
     RiskArea |-> "area of " \o id, RelevantFrameworkControl |-> controls]

Templates ==
    { <<TemplateRow("Q1", <<"A", ";", "B">>),
        TemplateRow("Q2", <<"B">>),
        TemplateRow("Q3", <<" ", "A", ";", " ", "A", " ">>),
        TemplateRow("Q4", <<>>)>>,
      <<TemplateRow("Q2", <<"A">>),
        TemplateRow("Q1", <<" ", ";", " ">>),
        TemplateRow("Q2", <<"B", ";", ";", "A", ";">>),
        TemplateRow("Q3", <<"C">>)>>,
      <<[QuestionID |-> "Q1", QuestionText |-> "text of Q1", RiskArea |-> "area of Q1"]>>,
      <<>> }

\* ----------------------------------------------------------------- state
VARIABLES
    template_questions,   \* the questionnaire template rows
    assessment_results,   \* Phase 1: the answered questions
    pc,                   \* where the run of the two phases stands
    i,                    \* calculate_risk_score: results processed
    points,               \* calculate_risk_score: points of the last result
    total_risk_points,    \* calculate_risk_score: running total
    question_scores,      \* calculate_risk_score: QuestionID -> points
    risk_level,           \* generate_assessment_report: level written
    data_file,            \* completed_assessment_*.csv: rows, or "absent"
    loaded_results,       \* Phase 2: rows read by load_csv_data
    question_lookup,      \* analyze_framework_impact: QuestionID -> row
    j,                    \* analyze_framework_impact: results processed
    points_earned,        \* analyze_framework_impact: points of the last result
    framework_findings,   \* analyze_framework_impact: entries in insertion order
    returned              \* analyze_framework_impact: "pending", "None", "findings"

vars ==
    <<template_questions, assessment_results, pc, i, points, total_risk_points,
      question_scores, risk_level, data_file, loaded_results, question_lookup,
      j, points_earned, framework_findings, returned>>

phase1_vars == <<i, points, total_risk_points, question_scores, risk_level>>

phase2_vars ==
    <<loaded_results, question_lookup, j, points_earned, framework_findings, returned>>

EmptyMap == [x \in {} |-> 0]

Init ==
    /\ template_questions \in Templates
    /\ assessment_results \in AnswerLists
    /\ pc = "score"
    /\ i = 0
    /\ points = 0
    /\ total_risk_points = 0
    /\ question_scores = EmptyMap
    /\ risk_level = "unset"
    /\ data_file = "absent"
    /\ loaded_results = <<>>
    /\ question_lookup = EmptyMap
    /\ j = 0
    /\ points_earned = 0
    /\ framework_findings = <<>>
    /\ returned = "pending"

\* ------------------------------------------------------------- Phase 1
\* calculate_risk_score: one iteration of the loop
ScoreResult ==
    /\ pc = "score"
    /\ i < Len(assessment_results)
    /\ LET result == assessment_results[i + 1]
           pts == Phase1Points(Lower(result.AnswerType), result.RiskWeight,
                               result.AnswerGiven)
       IN  /\ points' = pts
           /\ total_risk_points' = Accumulate(total_risk_points, pts)
           /\ question_scores' =
                  [id \in DOMAIN question_scores \cup {result.QuestionID} |->
                      IF id = result.QuestionID THEN pts ELSE question_scores[id]]
    /\ i' = i + 1
    /\ UNCHANGED <<template_questions, assessment_results, pc, risk_level,
                   data_file, phase2_vars>>

\* calculate_risk_score returns total_risk_points, question_scores
ScoreReturn ==
    /\ pc = "score"
    /\ i = Len(assessment_results)
    /\ pc' = "report"
    /\ UNCHANGED <<template_questions, assessment_results, phase1_vars,
                   data_file, phase2_vars>>

\* generate_assessment_report
GenerateAssessmentReport ==
    /\ pc = "report"
    /\ risk_level' = RiskLevel(total_risk_points)
    /\ pc' = "save"
    /\ UNCHANGED <<template_questions, assessment_results, i, points,
                   total_risk_points, question_scores, data_file, phase2_vars>>

\* save_assessment_data
SaveAssessmentData ==
    /\ pc = "save"
    /\ data_file' = [k \in 1..Len(assessment_results) |-> CsvRow(assessment_results[k])]
    /\ pc' = "load"
    /\ UNCHANGED <<template_questions, assessment_results, phase1_vars, phase2_vars>>

\* ------------------------------------------------------------- Phase 2
\* load_csv_data on the completed assessment file
LoadCsvData ==
    /\ pc = "load"
    /\ loaded_results' = data_file
    /\ pc' = "analyze"
    /\ UNCHANGED <<template_questions, assessment_results, phase1_vars, data_file,
                   question_lookup, j, points_earned, framework_findings, returned>>

\* analyze_framework_impact: "if not template_questions or not assessment_results"
AnalyzeMissing ==
    /\ pc = "analyze"
    /\ (template_questions = <<>> \/ loaded_results = <<>>)
    /\ returned' = "None"
    /\ pc' = "done"
    /\ UNCHANGED <<template_questions, assessment_results, phase1_vars, data_file,
                   loaded_results, question_lookup, j, points_earned,
                   framework_findings>>

\* analyze_framework_impact: question_lookup and framework_findings set up
AnalyzeStart ==
    /\ pc = "analyze"
    /\ template_questions # <<>> /\ loaded_results # <<>>
    /\ question_lookup' = QuestionLookup(template_questions)
    /\ framework_findings' = <<>>
    /\ pc' = "map"
    /\ UNCHANGED <<template_questions, assessment_results, phase1_vars, data_file,
                   loaded_results, j, points_earned, returned>>

\* analyze_framework_impact: one iteration of the loop
AnalyzeStep ==
    /\ pc = "map"
    /\ j < Len(loaded_results)
    /\ points_earned' = RowPoints(loaded_results[j + 1])
    /\ framework_findings' =
           AnalyzeResult(framework_findings, question_lookup, loaded_results[j + 1])
    /\ j' = j + 1
    /\ UNCHANGED <<template_questions, assessment_results, pc, phase1_vars, data_file,
                   loaded_results, question_lookup, returned>>

\* analyze_framework_impact returns framework_findings
AnalyzeReturn ==
    /\ pc = "map"
    /\ j = Len(loaded_results)
    /\ returned' = "findings"
    /\ pc' = "done"
    /\ UNCHANGED <<template_questions, assessment_results, phase1_vars, data_file,
                   loaded_results, question_lookup, j, points_earned,
                   framework_findings>>

Next ==
    \/ ScoreResult
    \/ ScoreReturn
    \/ GenerateAssessmentReport
    \/ SaveAssessmentData
    \/ LoadCsvData
    \/ AnalyzeMissing
    \/ AnalyzeStart
    \/ AnalyzeStep
    \/ AnalyzeReturn

Spec == Init /\ [][Next]_vars

\* ---------------------------------------------------------------- claims
\* the result calculate_risk_score processed last
LastResult == assessment_results[i]

\* the row analyze_framework_impact processed last
LastRow == loaded_results[j]

CatalogIds == {template_questions[k].QuestionID : k \in 1..Len(template_questions)}

OccursOnce(id) ==
    Cardinality({k \in 1..Len(assessment_results) :
                    assessment_results[k].QuestionID = id}) = 1

AllFindings ==
    UNION {{framework_findings[k].findings[m] :
               m \in 1..Len(framework_findings[k].findings)} :
           k \in 1..Len(framework_findings)}

\* C1: the points Phase 2 re-derives for a record equal the points Phase 1
\* recorded for it (read from question_scores, for a QuestionID that occurs
\* once in the answer list).
C1_PhasesAgree ==
    (j >= 1 /\ OccursOnce(LastRow.QuestionID))
        => points_earned = question_scores[LastRow.QuestionID]

\* C2: for a record of non-negative weight w the stored points follow the
\* score rule: yes_no "no" -> w, yes_no other -> 0; score_1_5 parsing to s in
\* 1..5 -> (5 - s) * w, with 1 -> 4w and 5 -> 0; score_1_5 not parsing -> w;
\* text and unrecognised types -> 0.
C2_ScoreRule ==
    (i >= 1 /\ LastResult.RiskWeight >= 0) =>
        LET w == LastResult.RiskWeight
            t == LastResult.AnswerType
            a == LastResult.AnswerGiven
            stored == question_scores[LastResult.QuestionID]
            s == ParseInt(a)
        IN  /\ stored = points
            /\ (t = YES_NO /\ a = <<"n", "o">>) => stored = w
            /\ (t = YES_NO /\ a # <<"n", "o">>) => stored = 0
            /\ (t = SCORE_1_5 /\ s.ok /\ s.val \in 1..5) => stored = (5 - s.val) * w
            /\ (t = SCORE_1_5 /\ s.ok /\ s.val = 1) => stored = 4 * w
            /\ (t = SCORE_1_5 /\ s.ok /\ s.val = 5) => stored = 0
            /\ (t = SCORE_1_5 /\ ~s.ok) => stored = w
            /\ (Lower(t) \notin {YES_NO, SCORE_1_5}) => stored = 0

C2_Witness ==
    /\ i >= 1
    /\ LastResult.AnswerType = SCORE_1_5
    /\ ~ParseInt(LastResult.AnswerGiven).ok
    /\ LastResult.RiskWeight > 0
    /\ question_scores[LastResult.QuestionID] = LastResult.RiskWeight

\* C3: with non-negative weights every stored point value and the running
\* total are non-negative, whatever the answers.
C3_NonNegative ==
    (\A k \in 1..Len(assessment_results) : assessment_results[k].RiskWeight >= 0) =>
        /\ total_risk_points >= 0
        /\ \A id \in DOMAIN question_scores : question_scores[id] >= 0

RECURSIVE SumPoints(_, _)
SumPoints(results, n) ==
    IF n = 0 THEN 0
    ELSE SumPoints(results, n - 1)
         + Phase1Points(Lower(results[n].AnswerType), results[n].RiskWeight,
                        results[n].AnswerGiven)

\* C4: the total is the sum of the points of every record processed, each
\* counted once also when a QuestionID repeats; the empty list gives total 0
\* and an empty mapping.
C4_TotalIsSum ==
    /\ total_risk_points = SumPoints(assessment_results, i)
    /\ (pc # "score" /\ assessment_results = <<>>) =>
           (total_risk_points = 0 /\ DOMAIN question_scores = {})

C4_Witness ==
    /\ pc = "report"
    /\ Len(assessment_results) = 2
    /\ assessment_results[1].QuestionID = assessment_results[2].QuestionID
    /\ question_scores[assessment_results[1].QuestionID] > 0
    /\ total_risk_points > question_scores[assessment_results[1].QuestionID]

\* C5: the level is fixed by the total: > 50 High, 21..50 Medium, <= 20 Low;
\* 51 High, 50 and 21 Medium, 20 and 0 Low; exactly one level per total.
C5_RiskLevel ==
    (risk_level # "unset") =>
        /\ risk_level \in {"High", "Medium", "Low"}
        /\ (total_risk_points > 50) <=> (risk_level = "High")
        /\ (total_risk_points > 20 /\ total_risk_points <= 50) <=> (risk_level = "Medium")
        /\ (total_risk_points <= 20) <=> (risk_level = "Low")
        /\ (total_risk_points = 51) => (risk_level = "High")
        /\ (total_risk_points \in {50, 21}) => (risk_level = "Medium")
        /\ (total_risk_points \in {20, 0}) => (risk_level = "Low")

C5_Witness == total_risk_points = 50 /\ risk_level = "Medium"

C6_Inv ==
    \A k \in 1..Len(framework_findings) :
        /\ framework_findings[k].findings # <<>>
        /\ \A m \in 1..Len(framework_findings[k].findings) :
               framework_findings[k].findings[m].RiskPoints > 0

C6_Step ==
    (j' = j + 1 /\ points_earned' = 0) => framework_findings' = framework_findings

\* C6: every control in the findings map has a non-empty list of findings
\* with RiskPoints > 0, at every point of the loop and in the result, and an
\* answer of exactly 0 points adds no control and no finding.
C6_OnlyRisky == []C6_Inv /\ [][C6_Step]_vars

C6_Witness ==
    /\ j >= 2
    /\ points_earned = 0
    /\ LastRow.QuestionID \in DOMAIN question_lookup
    /\ RelevantControls(ControlsStr(question_lookup[LastRow.QuestionID])) # <<>>
    /\ framework_findings # <<>>

FindingsOf(findings, control) ==
    IF HasControl(findings, control)
    THEN findings[CHOOSE k \in 1..Len(findings) : findings[k].control = control].findings
    ELSE <<>>

Occurrences(cs, c) == Cardinality({k \in 1..Len(cs) : cs[k] = c})

RECURSIVE TotalFindings(_)
TotalFindings(findings) ==
    IF findings = <<>> THEN 0
    ELSE Len(Head(findings).findings) + TotalFindings(Tail(findings))

Controls(findings) == {findings[k].control : k \in 1..Len(findings)}

C7_Step ==
    (/\ pc = "map" /\ j' = j + 1
     /\ points_earned' > 0
     /\ loaded_results[j + 1].QuestionID \in CatalogIds) =>
        LET row == loaded_results[j + 1]
            info == question_lookup[row.QuestionID]
            cs == RelevantControls(ControlsStr(info))
            d == [QuestionID |-> row.QuestionID, QuestionText |-> info.QuestionText,
                  AnswerGiven |-> row.AnswerGiven, RiskPoints |-> points_earned',
                  RiskArea |-> info.RiskArea]
        IN  /\ TotalFindings(framework_findings')
                 = TotalFindings(framework_findings) + Len(cs)
            /\ \A c \in Controls(framework_findings) \cup Controls(framework_findings')
                         \cup {cs[k] : k \in 1..Len(cs)} :
                   FindingsOf(framework_findings', c)
                     = FindingsOf(framework_findings, c)
                         \o [m \in 1..Occurrences(cs, c) |-> d]
            /\ (cs = <<>>) => framework_findings' = framework_findings

\* C7: a risky answer whose question is in the catalog with k listed controls
\* appends exactly k findings, one under each listed control (two under a
\* control listed twice), all with the same payload, and changes no other
\* control's list; with k = 0 the map is unchanged.
C7_OnePerControl == [][C7_Step]_vars

C7_Witness ==
    /\ j = 1
    /\ Len(framework_findings) = 1
    /\ Len(framework_findings[1].findings) = 2
    /\ framework_findings[1].findings[1] = framework_findings[1].findings[2]

C8_Step ==
    (pc = "map" /\ j' = j + 1 /\ loaded_results[j + 1].QuestionID \notin CatalogIds) =>
        (framework_findings' = framework_findings /\ pc' = "map")

\* C8: a record whose QuestionID is not in the catalog leaves the findings
\* map as it was, and the loop goes on; every finding carries a QuestionID of
\* the catalog.
C8_AbsentSkipped ==
    /\ [](\A f \in AllFindings : f.QuestionID \in CatalogIds)
    /\ [][C8_Step]_vars

C8_Witness ==
    /\ j = 2
    /\ loaded_results[1].QuestionID \notin CatalogIds
    /\ RowPoints(loaded_results[1]) > 0
    /\ framework_findings # <<>>

\* C9: analyze_framework_impact returns a findings map whenever the catalog
\* and the answer list are present, empty ones included; here both always are
\* present, so the call never ends in None.
C9_ReturnsMap == (pc = "done") => returned = "findings"

\* what the rows 1..n put into the map, in processing order
RECURSIVE Emitted(_)
Emitted(n) ==
    IF n = 0 THEN <<>>
    ELSE LET row == loaded_results[n]
         IN  IF RowPoints(row) > 0 /\ row.QuestionID \in CatalogIds
             THEN LET info == question_lookup[row.QuestionID]
                      cs == RelevantControls(ControlsStr(info))
                  IN  Emitted(n - 1) \o
                      [k \in 1..Len(cs) |->
                          [control |-> cs[k],
                           details |-> FindingDetails(row.QuestionID, info,
                                                      row.AnswerGiven, RowPoints(row))]]
             ELSE Emitted(n - 1)

RECURSIVE Under(_, _)
Under(es, c) ==
    IF es = <<>> THEN <<>>
    ELSE IF Head(es).control = c
         THEN <<Head(es).details>> \o Under(Tail(es), c)
         ELSE Under(Tail(es), c)

IsPrefix(s, t) == Len(s) <= Len(t) /\ SubSeq(t, 1, Len(s)) = s

C10_Inv ==
    LET es == Emitted(j)
    IN  /\ [k \in 1..Len(framework_findings) |-> framework_findings[k].control]
             = Dedupe([k \in 1..Len(es) |-> es[k].control])
        /\ \A k \in 1..Len(framework_findings) :
               framework_findings[k].findings = Under(es, framework_findings[k].control)

C10_Step ==
    (pc = "map") =>
        /\ Len(framework_findings) <= Len(framework_findings')
        /\ \A k \in 1..Len(framework_findings) :
               /\ framework_findings'[k].control = framework_findings[k].control
               /\ IsPrefix(framework_findings[k].findings, framework_findings'[k].findings)

\* C10: control keys stand in the order in which the controls were first
\* reached (within one answer, in the order of its control list), findings
\* under a control in the order of their answers, and a key or finding once
\* added is never removed or moved.
C10_ProcessingOrder == []C10_Inv /\ [][C10_Step]_vars

C10_Witness ==
    /\ j = 2
    /\ Len(framework_findings) = 2
    /\ framework_findings[1].control = <<"B">>
    /\ framework_findings[2].control = <<"A">>
    /\ Len(framework_findings[1].findings) = 2
    /\ framework_findings[1].findings[1].QuestionID = loaded_results[1].QuestionID
    /\ framework_findings[1].findings[2].QuestionID = loaded_results[2].QuestionID
    /\ loaded_results[1].QuestionID # loaded_results[2].QuestionID

====
